---- MODULE Spec2Model ----
(***************************************************************************)
(* Scheduled-campaign dispatch engine of email-cron.                       *)
(*                                                                         *)
(*   processScheduledEmails  (lib/services/cron-service.ts)                *)
(*   sendBulkEmails          (lib/services/email-service.ts)               *)
(*   webhook POST handler    (Resend/Svix delivery events)                 *)
(*                                                                         *)
(* Every `await` on the store or the provider is one atomic step; the      *)
(* synchronous code between two awaits belongs to the step that precedes   *)
(* it.  Numbers stand for instants and provider ids, 0 for null.           *)
(***************************************************************************)
EXTENDS Naturals, Integers, Sequences, FiniteSets, TLC

\* ------------------------------------------------------------------ bounds
\* campaigns in the store
NumCampaigns == 2
\* recipients in the store, over all campaigns
MaxRecipients == 2
\* the instant of the runs; campaigns are scheduled at 1..MaxTime+1
MaxTime == 2
\* store calls that reject, over all invocations
MaxFaults == 2
\* webhook requests the provider delivers
NumDeliveries == 2
\* distinct signed events (svix-id) the provider has to deliver
NumEvents == 1
\* messages handed to one sendBulkEmails call
MaxEmails == 3
\* calls of startCronWorker and stopCronWorker
MaxWorkerCalls == 3
\* ticks of the worker's timers
MaxTicks == 3

\* ------------------------------------------------------- program constants
MAX_CAMPAIGNS_PER_RUN == 50
CronBatchSize == 10
MaxBatchSize == 100

Null == "null"

CampaignIds == 1..NumCampaigns
\* The two trigger surfaces that call processScheduledEmails: the in-process timer
\* (lib/cron-worker.ts) and the HTTP cron route (app/api/emails/cron/route.ts).
Invocations == {"timer", "http"}
AllRecipientIds == CampaignIds \X (1..MaxRecipients)

Min(a, b) == IF a <= b THEN a ELSE b

VARIABLES
  emailCampaign,        \* store: id -> [status, scheduledAt, sentAt]
  emailRecipient,       \* store: id -> [campaignId, status, sentAt, errorMessage, resendEmailId, lastEvent]
  clock,                \* the instant `new Date()` returns
  pc,                   \* per invocation: position in processScheduledEmails
  now,                  \* per invocation: `now`
  campaigns,            \* per invocation: the candidate list of the main query
  idx,                  \* per invocation: position of `campaign` in `campaigns`
  recipientsToProcess,  \* per invocation
  emailResults,         \* per invocation: `results` of sendBulkEmails, then emailResults
  sendI,                \* per invocation: `i` of the chunk loop of sendBulkEmails
  ri,                   \* per invocation: `i` of the reconciliation loop
  successCount,
  failedCount,
  processed,
  totalSent,
  totalFailed,
  errors,
  thrown,               \* per invocation: the value caught by the catch block
  providerCalls,        \* history: every resend.batch.send call
  nextId,               \* provider: next message id it assigns
  claimLog,             \* history: campaign -> invocations whose claim update affected a row
  zeroRows,             \* history: <<invocation, campaign>> whose claim update affected no row
  attempts,             \* history: per invocation, campaigns in the order their claim was attempted
  finished,             \* history: per invocation, campaigns it claimed and left through `processed++`
  faults,               \* history: number of store calls that rejected
  webhookEvent,         \* store: the rows of the webhookEvent table, in creation order
  secret,               \* process.env.RESEND_WEBHOOK_SECRET
  events,               \* provider: svix-id -> the body it signed under that id
  wpc,                  \* per webhook request: position in POST
  wreq,                 \* per webhook request: headers and body
  wres,                 \* per webhook request: status of the response, 0 before it
  mutations,            \* history: svix-id -> emailRecipient.updateMany calls made for it
  writes,               \* history: per webhook request, the tables it wrote to
  NODE_ENV,             \* process.env.NODE_ENV
  CRON_SECRET,          \* process.env.CRON_SECRET, "" when unset
  authHeader,           \* cron route: request.headers.get("authorization")
  gpc,                  \* cron route: position in GET
  gres,                 \* cron route: status of the response, 0 before it
  bulkEmails,           \* sendBulkEmails called alone: `emails` (the addresses)
  bulkOption,           \* sendBulkEmails called alone: options.batchSize
  bulkI,                \* sendBulkEmails called alone: `i` of the chunk loop
  bulkResults,          \* sendBulkEmails called alone: `results`
  bulkPc,               \* sendBulkEmails called alone: position
  bulkCalls,            \* history: the resend.batch.send calls of that call
  intervalId,           \* cron worker: the timer setInterval returned, 0 for null
  isProcessing,         \* cron worker: the overlap guard
  activeTimers,         \* cron worker: the timers that have not been cleared
  initialRuns,          \* cron worker: unsettled runs started by startCronWorker itself
  tickRuns,             \* cron worker: unsettled runs started by a tick
  workerCalls,          \* history: calls of startCronWorker and stopCronWorker
  ticks,                \* history: ticks fired
  mpc,                  \* manual send: position in POST
  mid,                  \* manual send: `id`, 0 before the request
  mRecipients,          \* manual send: campaign.recipients
  mResults,             \* manual send: emailResults
  mSendI,               \* manual send: `i` of the chunk loop of sendBulkEmails
  mRi,                  \* manual send: `i` of the loop over the recipients
  mSuccessCount,        \* manual send: successCount
  mFailedCount,         \* manual send: failedCount
  mres                  \* manual send: status of the response, 0 before it

cronVars == <<emailCampaign, emailRecipient, clock, pc, now, campaigns, idx,
              recipientsToProcess, emailResults, sendI, ri, successCount, failedCount,
              processed, totalSent, totalFailed, errors, thrown, providerCalls, nextId,
              claimLog, zeroRows, attempts, finished, faults>>

webVars == <<webhookEvent, secret, events, wpc, wreq, wres, mutations, writes>>

triggerVars == <<NODE_ENV, CRON_SECRET, authHeader, gpc, gres>>

bulkVars == <<bulkEmails, bulkOption, bulkI, bulkResults, bulkPc, bulkCalls>>

workerVars == <<intervalId, isProcessing, activeTimers, initialRuns, tickRuns, workerCalls, ticks>>

manualVars == <<mpc, mid, mRecipients, mResults, mSendI, mRi, mSuccessCount, mFailedCount, mres>>

auxVars == <<triggerVars, bulkVars, workerVars, manualVars>>

vars == <<cronVars, webVars, auxVars>>

\* ------------------------------------------------------------------ store

\* Recipients of campaign c in the store, in id order.
RECURSIVE SeqOfSet(_)
SeqOfSet(S) ==
  IF S = {} THEN <<>>
  ELSE LET m == CHOOSE x \in S : \A y \in S : x[2] <= y[2]
       IN <<m>> \o SeqOfSet(S \ {m})

\* include: { recipients: { where: { status: PENDING } } }
PendingRecipients(c) ==
  SeqOfSet({r \in DOMAIN emailRecipient :
              /\ emailRecipient[r].campaignId = c
              /\ emailRecipient[r].status = "PENDING"})

\* A variant of the query that is not the code's: where: { status: SCHEDULED }
IsDueAnyTime(c, t) == emailCampaign[c].status = "SCHEDULED"

\* where: { status: SCHEDULED, scheduledAt: { lte: now } }
IsDue(c, t) ==
  /\ emailCampaign[c].status = "SCHEDULED"
  /\ emailCampaign[c].scheduledAt # 0
  /\ emailCampaign[c].scheduledAt <= t

\* The ordering the query does not ask for: orderBy: { scheduledAt: "desc" }
OrderByScheduledAtDesc(a, b) == emailCampaign[a].scheduledAt >= emailCampaign[b].scheduledAt

\* orderBy: { scheduledAt: "asc" }
OrderByScheduledAt(a, b) == emailCampaign[a].scheduledAt <= emailCampaign[b].scheduledAt

\* The order in which the store returns the due campaigns: by scheduledAt, rows of
\* equal scheduledAt in id order.
DueOrderings(t) ==
  LET due == {c \in CampaignIds : IsDue(c, t)}
      n == Cardinality(due)
  IN {s \in [1..n -> due] :
        /\ \A p, q \in 1..n : p # q => s[p] # s[q]
        /\ \A p, q \in 1..n : p < q => OrderByScheduledAt(s[p], s[q])
        /\ \A p, q \in 1..n : (p < q /\ OrderByScheduledAt(s[q], s[p])) => s[p] < s[q]}

\* take: MAX_CAMPAIGNS_PER_RUN, with the PENDING recipients included
Candidates(s) ==
  [p \in 1..Min(Len(s), MAX_CAMPAIGNS_PER_RUN) |->
     [id |-> s[p], recipients |-> PendingRecipients(s[p])]]

\* ------------------------------------------------------- sendBulkEmails

\* const batchSize = Math.min(options?.batchSize ?? 10, 100)
BatchSize(option) == Min(option, MaxBatchSize)

\* options.idempotencyKeyPrefix of the call in processScheduledEmails: it passes
\* none (0 stands for undefined).
CronKeyPrefix == 0

\* const batchIndex = Math.floor(i / batchSize)
BatchIndex(i, batchSize) == i \div batchSize

\* options?.idempotencyKeyPrefix ? `${prefix}-batch-${batchIndex}` : undefined
IdempotencyKey(prefix, batchIndex) ==
  IF prefix = 0
  THEN [defined |-> FALSE, prefix |-> 0, batchIndex |-> 0]
  ELSE [defined |-> TRUE, prefix |-> prefix, batchIndex |-> batchIndex]

\* emails.slice(i, i + batchSize)
Batch(emails, i, batchSize) == SubSeq(emails, i + 1, Min(i + batchSize, Len(emails)))

ProviderErrorMessages == {""}
ThrownValues == {[isError |-> TRUE, message |-> "fetch failed"]}

\* What resend.batch.send may answer for a batch: { error }, { data: { data: [...] } }
\* with one item per message (id 0: the item carries no id), neither, or a throw.
ProviderResponses(batch, base) ==
  {[kind |-> "error", message |-> m, thrown |-> FALSE, items |-> <<>>] : m \in ProviderErrorMessages}
  \cup {[kind |-> "throw", message |-> e.message, thrown |-> e.isError, items |-> <<>>] : e \in ThrownValues}
  \cup {[kind |-> "nodata", message |-> "", thrown |-> FALSE, items |-> <<>>]}
  \cup {[kind |-> "data", message |-> "", thrown |-> FALSE,
         items |-> [k \in 1..Len(batch) |-> IF k \in ok THEN base + k ELSE 0]] :
          ok \in SUBSET (1..Len(batch))}

\* error.message || "Batch send failed"
BatchErrorMessage(m) == IF m = "" THEN "Batch send failed" ELSE m

\* err instanceof Error ? err.message : "Failed to send"
CaughtSendMessage(resp) == IF resp.thrown THEN resp.message ELSE "Failed to send"

\* One result of the data branch: success: !!item?.id
ItemResult(batch, items, k) ==
  [to |-> IF k <= Len(batch) THEN batch[k] ELSE <<0, 0>>,
   success |-> items[k] # 0,
   error |-> IF items[k] # 0 THEN Null ELSE "No email ID returned",
   resendEmailId |-> items[k]]

\* Variant that is not the code's: a member of a failed chunk reported as sent.
FailedResultAsSuccess(e, m) == [to |-> e, success |-> TRUE, error |-> m, resendEmailId |-> 0]

FailedResult(e, m) == [to |-> e, success |-> FALSE, error |-> m, resendEmailId |-> 0]

\* The results one chunk pushes.
ChunkResults(batch, resp) ==
  CASE resp.kind = "error" ->
         [k \in 1..Len(batch) |-> FailedResult(batch[k], BatchErrorMessage(resp.message))]
    [] resp.kind = "data" ->
         [k \in 1..Len(resp.items) |-> ItemResult(batch, resp.items, k)]
    [] resp.kind = "nodata" ->
         [k \in 1..Len(batch) |-> FailedResult(batch[k], "No response data")]
    [] resp.kind = "throw" ->
         [k \in 1..Len(batch) |-> FailedResult(batch[k], CaughtSendMessage(resp))]

\* emailResults[i], undefined past the end
Undefined == [to |-> <<0, 0>>, success |-> FALSE, error |-> Null, resendEmailId |-> 0]
ResultAt(results, i) == IF i <= Len(results) THEN results[i] ELSE Undefined

\* result?.error || "Unknown error"
ErrorOf(result) == IF result.error \in {Null, ""} THEN "Unknown error" ELSE result.error

\* ---------------------------------------------- conditional updates (where)

\* Variants of the claim guard that are not the code's: no status in the where
\* clause (the unconditional update({ where: { id } }) of the legacy copy in
\* lib/services/email-service.ts), and the wider guard of the catch block.
ClaimWhereAny(c) == TRUE
ClaimWhereNotTerminal(c) == emailCampaign[c].status \in {"SCHEDULED", "SENDING"}

\* A variant of the catch block's update that is not the code's: no status condition.
FailedWhereAny(c) == TRUE

\* A variant of the recipient update that is not the code's: no status condition.
PendingWhereAny(r) == TRUE

\* where: { id: campaign.id, status: SCHEDULED }
ClaimWhere(c) == emailCampaign[c].status = "SCHEDULED"
SendingWhere(c) == emailCampaign[c].status = "SENDING"
PendingWhere(r) == emailRecipient[r].status = "PENDING"
FailedWhere(c) == emailCampaign[c].status \in {"SENDING", "SCHEDULED"}

\* Variants of the final status that are not the code's: FAILED on any failure,
\* and SENT whatever happened.
FinalStatusStrict(success, failed) == IF failed = 0 THEN "SENT" ELSE "FAILED"
FinalStatusAlwaysSent(success, failed) == "SENT"

\* failedCount === 0 ? SENT : successCount > 0 ? SENT : FAILED
FinalStatus(success, failed) ==
  IF failed = 0 THEN "SENT" ELSE IF success > 0 THEN "SENT" ELSE "FAILED"

\* Variant of the no-recipient update that is not the code's: data: { status: SENT }
NoRecipientsDataNoSentAt(row) == [row EXCEPT !.status = "SENT"]

\* data: { status: SENT, sentAt: new Date() } of the no-recipient branch
NoRecipientsData(row) == [row EXCEPT !.status = "SENT", !.sentAt = clock]

\* Variant of the final update that is not the code's: data: { status: finalStatus }
FinalDataNoSentAt(row, finalStatus) == [row EXCEPT !.status = finalStatus]

\* data: { status: finalStatus, sentAt: finalStatus === SENT ? new Date() : undefined }
FinalData(row, finalStatus) ==
  [row EXCEPT !.status = finalStatus,
              !.sentAt = IF finalStatus = "SENT" THEN clock ELSE @]

\* ------------------------------------------------------------------- Init

CampaignRows ==
  {[status |-> "DRAFT", scheduledAt |-> 0, sentAt |-> 0]}
  \cup {[status |-> "SCHEDULED", scheduledAt |-> t, sentAt |-> 0] : t \in 1..(MaxTime + 1)}

NewRecipient(c) ==
  [campaignId |-> c, status |-> "PENDING", sentAt |-> 0, errorMessage |-> Null,
   resendEmailId |-> 0, lastEvent |-> Null]

InitLocals ==
  /\ pc = [i \in Invocations |-> "idle"]
  /\ now = [i \in Invocations |-> 0]
  /\ campaigns = [i \in Invocations |-> <<>>]
  /\ idx = [i \in Invocations |-> 0]
  /\ recipientsToProcess = [i \in Invocations |-> <<>>]
  /\ emailResults = [i \in Invocations |-> <<>>]
  /\ sendI = [i \in Invocations |-> 0]
  /\ ri = [i \in Invocations |-> 0]
  /\ successCount = [i \in Invocations |-> 0]
  /\ failedCount = [i \in Invocations |-> 0]
  /\ processed = [i \in Invocations |-> 0]
  /\ totalSent = [i \in Invocations |-> 0]
  /\ totalFailed = [i \in Invocations |-> 0]
  /\ errors = [i \in Invocations |-> <<>>]
  /\ thrown = [i \in Invocations |-> Null]

InitHistory ==
  /\ providerCalls = <<>>
  /\ nextId = 0
  /\ claimLog = [c \in CampaignIds |-> <<>>]
  /\ zeroRows = {}
  /\ attempts = [i \in Invocations |-> <<>>]
  /\ finished = [i \in Invocations |-> <<>>]
  /\ faults = 0

\* Campaign ids name the campaigns in the order of their rows: any other store is
\* one of these with the ids renamed, and no step depends on the order of ids.
RowOrder(rows, n, a, b) ==
  \/ rows[a].scheduledAt < rows[b].scheduledAt
  \/ rows[a].scheduledAt = rows[b].scheduledAt /\ n[a] <= n[b]

RECURSIVE Total(_, _)
Total(n, k) == IF k = 0 THEN 0 ELSE n[k] + Total(n, k - 1)

Deliveries == 1..NumDeliveries
EventIds == 1..NumEvents
NoRequest == [svixId |-> 0, svixTimestamp |-> FALSE, svixSignature |-> FALSE, valid |-> FALSE]
\* An event id under which the provider has not signed a body yet.
Unsigned == [type |-> "unsigned", emailId |-> 0, reason |-> Null]

InitWebhookIdle ==
  /\ webhookEvent = <<>>
  /\ wpc = [h \in Deliveries |-> "idle"]
  /\ wreq = [h \in Deliveries |-> NoRequest]
  /\ wres = [h \in Deliveries |-> 0]
  /\ mutations = [e \in EventIds |-> 0]
  /\ writes = [h \in Deliveries |-> {}]

\* No request has reached the cron route.
InitTriggerIdle ==
  /\ NODE_ENV = "production"
  /\ CRON_SECRET = "s3cret"
  /\ authHeader = Null
  /\ gpc = "idle"
  /\ gres = 0

\* sendBulkEmails is not being called on its own.
InitBulkIdle ==
  /\ bulkEmails = <<>>
  /\ bulkOption = CronBatchSize
  /\ bulkI = 0
  /\ bulkResults = <<>>
  /\ bulkPc = "idle"
  /\ bulkCalls = <<>>

\* The module lib/cron-worker.ts as loaded: no timer, nothing in flight.
InitWorker ==
  /\ intervalId = 0
  /\ isProcessing = FALSE
  /\ activeTimers = {}
  /\ initialRuns = 0
  /\ tickRuns = 0
  /\ workerCalls = 0
  /\ ticks = 0

\* No request has reached the manual send route.
InitManualIdle ==
  /\ mpc = "idle"
  /\ mid = 0
  /\ mRecipients = <<>>
  /\ mResults = <<>>
  /\ mSendI = 0
  /\ mRi = 0
  /\ mSuccessCount = 0
  /\ mFailedCount = 0
  /\ mres = 0

InitAux == InitTriggerIdle /\ InitBulkIdle /\ InitWorker /\ InitManualIdle

\* The store the engine starts from, and no invocation under way.
InitCron ==
  /\ secret = "whsec"
  /\ events = [e \in EventIds |-> Unsigned]
  /\ InitWebhookIdle
  /\ emailCampaign \in [CampaignIds -> CampaignRows]
  /\ \E n \in [CampaignIds -> 0..MaxRecipients] :
       /\ Total(n, NumCampaigns) <= MaxRecipients
       /\ \A a, b \in CampaignIds : a < b => RowOrder(emailCampaign, n, a, b)
       /\ emailRecipient =
            [r \in {q \in AllRecipientIds : q[2] <= n[q[1]]} |-> NewRecipient(r[1])]
  /\ clock = MaxTime
  /\ InitLocals
  /\ InitHistory

Init == InitAux /\ InitCron

\* ------------------------------------------------ processScheduledEmails

Campaign(i) == campaigns[i][idx[i]]

\* Leaving the loop body: the next candidate, or the return statement.
NextCandidate(i) ==
  /\ idx' = [idx EXCEPT ![i] = @ + 1]
  /\ pc' = [pc EXCEPT ![i] = IF idx[i] < Len(campaigns[i]) THEN "claim" ELSE "done"]
  /\ recipientsToProcess' = [recipientsToProcess EXCEPT ![i] = <<>>]
  /\ emailResults' = [emailResults EXCEPT ![i] = <<>>]
  /\ sendI' = [sendI EXCEPT ![i] = 0]
  /\ ri' = [ri EXCEPT ![i] = 0]
  /\ successCount' = [successCount EXCEPT ![i] = 0]
  /\ failedCount' = [failedCount EXCEPT ![i] = 0]
  /\ thrown' = [thrown EXCEPT ![i] = Null]

\* const now = new Date(); campaigns = await prisma.emailCampaign.findMany(...)
Query(i) ==
  /\ pc[i] = "idle"
  /\ i = "http" => (pc["timer"] # "idle" \/ gpc = "run")  \* both run the same code: name the first one timer
  /\ \E s \in DueOrderings(clock) :
       /\ campaigns' = [campaigns EXCEPT ![i] = Candidates(s)]
       /\ pc' = [pc EXCEPT ![i] = IF Len(s) = 0 THEN "done" ELSE "claim"]
       /\ idx' = [idx EXCEPT ![i] = IF Len(s) = 0 THEN 0 ELSE 1]
  /\ now' = [now EXCEPT ![i] = clock]
  /\ UNCHANGED <<emailCampaign, emailRecipient, clock, recipientsToProcess, emailResults,
                 sendI, ri, successCount, failedCount, processed, totalSent, totalFailed,
                 errors, thrown, providerCalls, nextId, claimLog, zeroRows, attempts, finished>>
  /\ UNCHANGED <<faults, webVars, auxVars>>

\* Variant that is not the code's: the count of the claim update is not looked at.
ClaimLostNever(count) == FALSE

\* if (updatedCampaign.count === 0) continue
ClaimLost(count) == count = 0

\* updateMany({ where: { id, status: SCHEDULED }, data: { status: SENDING } })
Claim(i) ==
  /\ pc[i] = "claim"
  /\ LET c == Campaign(i).id
         count == IF ClaimWhere(c) THEN 1 ELSE 0
     IN
       /\ attempts' = [attempts EXCEPT ![i] = Append(@, c)]
       /\ IF count > 0
          THEN /\ emailCampaign' = [emailCampaign EXCEPT ![c].status = "SENDING"]
               /\ claimLog' = [claimLog EXCEPT ![c] = Append(@, i)]
               /\ UNCHANGED zeroRows
          ELSE /\ zeroRows' = zeroRows \cup {<<i, c>>}
               /\ UNCHANGED <<emailCampaign, claimLog>>
       /\ IF ClaimLost(count)
          THEN NextCandidate(i)
          ELSE /\ pc' = [pc EXCEPT ![i] = IF Len(Campaign(i).recipients) = 0
                                          THEN "norecipients" ELSE "refetch"]
               /\ UNCHANGED <<idx, recipientsToProcess, emailResults, sendI, ri,
                              successCount, failedCount, thrown>>
  /\ UNCHANGED <<emailRecipient, clock, now, campaigns, processed, totalSent, totalFailed,
                 errors, providerCalls, nextId, finished>>
  /\ UNCHANGED <<faults, webVars, auxVars>>

\* campaign.recipients.length === 0: updateMany SENDING -> SENT, processed++, continue
MarkSentNoRecipients(i) ==
  /\ pc[i] = "norecipients"
  /\ LET c == Campaign(i).id IN
       /\ emailCampaign' = IF SendingWhere(c)
                           THEN [emailCampaign EXCEPT ![c] = NoRecipientsData(@)]
                           ELSE emailCampaign
       /\ finished' = [finished EXCEPT ![i] = Append(@, c)]
  /\ processed' = [processed EXCEPT ![i] = @ + 1]
  /\ NextCandidate(i)
  /\ UNCHANGED <<emailRecipient, clock, now, campaigns, totalSent, totalFailed, errors,
                 providerCalls, nextId, claimLog, zeroRows, attempts>>
  /\ UNCHANGED <<faults, webVars, auxVars>>

\* Variant that is not the code's: the recipients of the candidate snapshot.
SnapshotRecipients(i, c) == Campaign(i).recipients

\* currentCampaign.recipients: the PENDING recipients findUnique returns
CurrentRecipients(i, c) == PendingRecipients(c)

\* findUnique with the PENDING recipients; continue unless the status is still SENDING
Refetch(i) ==
  /\ pc[i] = "refetch"
  /\ LET c == Campaign(i).id IN
       IF emailCampaign[c].status # "SENDING"
       THEN NextCandidate(i)
       ELSE /\ recipientsToProcess' = [recipientsToProcess EXCEPT ![i] = CurrentRecipients(i, c)]
            /\ pc' = [pc EXCEPT ![i] = IF Len(CurrentRecipients(i, c)) = 0 THEN "final" ELSE "send"]
            /\ UNCHANGED <<idx, emailResults, sendI, ri, successCount, failedCount, thrown>>
  /\ UNCHANGED <<emailCampaign, emailRecipient, clock, now, campaigns, processed, totalSent,
                 totalFailed, errors, providerCalls, nextId, claimLog, zeroRows, attempts,
                 finished>>
  /\ UNCHANGED <<faults, webVars, auxVars>>

\* One turn of the chunk loop of sendBulkEmails(emails, { batchSize: 10, ... }).
SendChunk(i) ==
  /\ pc[i] = "send"
  /\ LET batchSize == BatchSize(CronBatchSize)
         emails == recipientsToProcess[i]
         batch == Batch(emails, sendI[i], batchSize)
     IN /\ \E resp \in ProviderResponses(batch, nextId) :
             /\ emailResults' = [emailResults EXCEPT ![i] = @ \o ChunkResults(batch, resp)]
             /\ providerCalls' = Append(providerCalls,
                                        [inv |-> i, campaignId |-> Campaign(i).id,
                                         to |-> batch, response |-> resp,
                                         batchIndex |-> BatchIndex(sendI[i], batchSize),
                                         idempotencyKey |->
                                           IdempotencyKey(CronKeyPrefix,
                                                          BatchIndex(sendI[i], batchSize))])
        /\ nextId' = nextId + Len(batch)
        /\ IF sendI[i] + batchSize < Len(emails)
           THEN /\ sendI' = [sendI EXCEPT ![i] = @ + batchSize]
                /\ UNCHANGED <<pc, ri>>
           ELSE /\ pc' = [pc EXCEPT ![i] = "reconcile"]
                /\ ri' = [ri EXCEPT ![i] = 1]
                /\ UNCHANGED sendI
  /\ UNCHANGED <<emailCampaign, emailRecipient, clock, now, campaigns, idx,
                 recipientsToProcess, successCount, failedCount, processed, totalSent,
                 totalFailed, errors, thrown, claimLog, zeroRows, attempts, finished>>
  /\ UNCHANGED <<faults, webVars, auxVars>>

\* One turn of the reconciliation loop: updateMany where PENDING.
ReconcileRecipient(i) ==
  /\ pc[i] = "reconcile"
  /\ LET r == recipientsToProcess[i][ri[i]]
         result == ResultAt(emailResults[i], ri[i])
         count == IF PendingWhere(r) THEN 1 ELSE 0
     IN IF result.success
        THEN /\ emailRecipient' =
                  IF count > 0
                  THEN [emailRecipient EXCEPT ![r].status = "SENT", ![r].sentAt = clock]
                  ELSE emailRecipient
             /\ successCount' = [successCount EXCEPT ![i] = @ + count]
             /\ totalSent' = [totalSent EXCEPT ![i] = @ + count]
             /\ UNCHANGED <<failedCount, totalFailed>>
        ELSE /\ emailRecipient' =
                  IF count > 0
                  THEN [emailRecipient EXCEPT ![r].status = "FAILED",
                                              ![r].errorMessage = ErrorOf(result)]
                  ELSE emailRecipient
             /\ failedCount' = [failedCount EXCEPT ![i] = @ + 1]
             /\ totalFailed' = [totalFailed EXCEPT ![i] = @ + 1]
             /\ UNCHANGED <<successCount, totalSent>>
  /\ ri' = [ri EXCEPT ![i] = @ + 1]
  /\ pc' = [pc EXCEPT ![i] = IF ri[i] < Len(recipientsToProcess[i]) THEN "reconcile" ELSE "final"]
  /\ UNCHANGED <<emailCampaign, clock, now, campaigns, idx, recipientsToProcess, emailResults,
                 sendI, processed, errors, thrown, providerCalls, nextId, claimLog, zeroRows,
                 attempts, finished>>
  /\ UNCHANGED <<faults, webVars, auxVars>>

\* updateMany({ where: { id, status: SENDING }, data: { status: finalStatus, sentAt } })
FinalizeCampaign(i) ==
  /\ pc[i] = "final"
  /\ LET c == Campaign(i).id
         finalStatus == FinalStatus(successCount[i], failedCount[i])
     IN /\ emailCampaign' = IF SendingWhere(c)
                            THEN [emailCampaign EXCEPT ![c] = FinalData(@, finalStatus)]
                            ELSE emailCampaign
        /\ finished' = [finished EXCEPT ![i] = Append(@, c)]
  /\ processed' = [processed EXCEPT ![i] = @ + 1]
  /\ NextCandidate(i)
  /\ UNCHANGED <<emailRecipient, clock, now, campaigns, totalSent, totalFailed, errors,
                 providerCalls, nextId, claimLog, zeroRows, attempts>>
  /\ UNCHANGED <<faults, webVars, auxVars>>

Step(i) ==
  \/ Query(i)
  \/ Claim(i)
  \/ MarkSentNoRecipients(i)
  \/ Refetch(i)
  \/ SendChunk(i)
  \/ ReconcileRecipient(i)
  \/ FinalizeCampaign(i)

\* The engine over a store whose calls never reject.
Next == \E i \in Invocations : Step(i)

Spec == Init /\ [][Next]_vars

\* ------------------------------------------------------ store exceptions

\* What a rejected prisma call may throw: an Error, or something that is none.
StoreThrown == {[isError |-> TRUE, message |-> "Connection lost"],
                [isError |-> FALSE, message |-> ""]}

\* The awaits on the store inside the try block of the loop body.
StoreSteps == {"claim", "norecipients", "refetch", "reconcile", "final"}

\* error instanceof Error ? error.message : "Unknown error"
CaughtMessage(e) == IF e.isError THEN e.message ELSE "Unknown error"

\* A store call of the loop body rejects (without effect): the catch block pushes
\* `Campaign ${campaign.id}: ${errorMessage}` and goes on to mark the campaign FAILED.
Throw(i) ==
  /\ pc[i] \in StoreSteps
  /\ faults < MaxFaults
  /\ faults' = faults + 1
  /\ \E e \in StoreThrown :
       /\ errors' = [errors EXCEPT ![i] =
                       Append(@, [campaignId |-> Campaign(i).id, message |-> CaughtMessage(e)])]
       /\ thrown' = [thrown EXCEPT ![i] = CaughtMessage(e)]
  /\ attempts' = IF pc[i] = "claim"
                 THEN [attempts EXCEPT ![i] = Append(@, Campaign(i).id)]
                 ELSE attempts
  /\ pc' = [pc EXCEPT ![i] = "catch"]
  /\ UNCHANGED <<emailCampaign, emailRecipient, clock, now, campaigns, idx,
                 recipientsToProcess, emailResults, sendI, ri, successCount, failedCount,
                 processed, totalSent, totalFailed, providerCalls, nextId, claimLog,
                 zeroRows, finished>>
  /\ UNCHANGED <<webVars, auxVars>>

\* catch: updateMany({ where: { id, status: { in: [SENDING, SCHEDULED] } },
\*                     data: { status: FAILED } }); processed++
MarkFailed(i) ==
  /\ pc[i] = "catch"
  /\ UNCHANGED faults
  /\ LET c == Campaign(i).id IN
       emailCampaign' = IF FailedWhere(c)
                        THEN [emailCampaign EXCEPT ![c].status = "FAILED"]
                        ELSE emailCampaign
  /\ processed' = [processed EXCEPT ![i] = @ + 1]
  /\ NextCandidate(i)
  /\ UNCHANGED <<emailRecipient, clock, now, campaigns, totalSent, totalFailed, errors,
                 providerCalls, nextId, claimLog, zeroRows, attempts, finished>>
  /\ UNCHANGED <<webVars, auxVars>>

\* The update of the catch block rejects: nothing catches it inside
\* processScheduledEmails, the loop is left and the returned promise rejects.
ThrowInCatch(i) ==
  /\ pc[i] = "catch"
  /\ faults < MaxFaults
  /\ faults' = faults + 1
  /\ pc' = [pc EXCEPT ![i] = "rejected"]
  /\ UNCHANGED <<emailCampaign, emailRecipient, clock, now, campaigns, idx,
                 recipientsToProcess, emailResults, sendI, ri, successCount, failedCount,
                 processed, totalSent, totalFailed, errors, thrown, providerCalls, nextId,
                 claimLog, zeroRows, attempts, finished>>
  /\ UNCHANGED <<webVars, auxVars>>

\* The main query rejects: "Worker exceeded resource limits" returns the empty
\* summary with one error, anything else is re-thrown.
QueryThrows(i) ==
  /\ pc[i] = "idle"
  /\ faults < MaxFaults
  /\ faults' = faults + 1
  /\ i = "http" => (pc["timer"] # "idle" \/ gpc = "run")
  /\ now' = [now EXCEPT ![i] = clock]
  /\ \E resourceLimit \in BOOLEAN :
       IF resourceLimit
       THEN /\ pc' = [pc EXCEPT ![i] = "done"]
            /\ errors' = [errors EXCEPT ![i] =
                            <<[campaignId |-> 0,
                               message |-> "Prisma Accelerate resource limit exceeded"]>>]
       ELSE /\ pc' = [pc EXCEPT ![i] = "rejected"]
            /\ UNCHANGED errors
  /\ UNCHANGED <<emailCampaign, emailRecipient, clock, campaigns, idx, recipientsToProcess,
                 emailResults, sendI, ri, successCount, failedCount, processed, totalSent,
                 totalFailed, thrown, providerCalls, nextId, claimLog, zeroRows, attempts,
                 finished>>
  /\ UNCHANGED <<webVars, auxVars>>

NextFault ==
  \/ Next
  \/ \E i \in Invocations :
       \/ Throw(i)
       \/ MarkFailed(i)
       \/ ThrowInCatch(i)
       \/ QueryThrows(i)

SpecFault == Init /\ [][NextFault]_vars

\* A store whose campaigns are all scheduled and due when the invocations start;
\* the last one has a recipient, the others have none.
InitDue ==
  /\ InitAux
  /\ secret = "whsec"
  /\ events = [e \in EventIds |-> Unsigned]
  /\ InitWebhookIdle
  /\ emailCampaign = [c \in CampaignIds |-> [status |-> "SCHEDULED", scheduledAt |-> 1, sentAt |-> 0]]
  /\ emailRecipient = [r \in {<<NumCampaigns, 1>>} |-> NewRecipient(r[1])]
  /\ clock = MaxTime
  /\ InitLocals
  /\ InitHistory

SpecFaultDue == InitDue /\ [][NextFault]_vars

\* ------------------------------------------------------- webhook POST

EMAIL_EVENTS == {"email.sent", "email.delivered", "email.opened", "email.clicked",
                 "email.bounced", "email.failed", "email.complained",
                 "email.delivery_delayed", "email.suppressed"}

isEmailEvent(type) == type \in EMAIL_EVENTS

eventToLastEvent(type) ==
  CASE type = "email.sent" -> "sent"
    [] type = "email.delivered" -> "delivered"
    [] type = "email.opened" -> "opened"
    [] type = "email.clicked" -> "clicked"
    [] type = "email.bounced" -> "bounced"
    [] type = "email.failed" -> "failed"
    [] type = "email.complained" -> "complained"
    [] type = "email.delivery_delayed" -> "delivery_delayed"
    [] type = "email.suppressed" -> "suppressed"
    [] OTHER -> type

\* Variant that is not the code's: no event type sets the FAILED status.
shouldSetFailedStatusNever(type) == FALSE

shouldSetFailedStatus(type) == type = "email.bounced" \/ type = "email.failed"

\* !eventType || !isEmailEvent(eventType)
Unrecognized(type) == type = Null \/ ~isEmailEvent(type)

\* The provider message id of recipient r, and an id no recipient carries.
MessageId(r) == (r[1] - 1) * MaxRecipients + r[2]
UnknownMessageId == NumCampaigns * MaxRecipients + 1

\* Event types the provider signs: three delivery events, one event of another
\* family, and a body without a type.
SignedTypes == {"email.delivered", "email.bounced", "email.failed", "contact.created", Null}

\* The bodies the provider may sign: data.email_id is missing (0), the id of the
\* first recipient, or an id no recipient carries; data.bounce.message and
\* data.failed.reason are missing or a text.
EventBodies ==
  {b \in [type : SignedTypes, emailId : {0, MessageId(<<1, 1>>), UnknownMessageId},
          reason : {Null, "mailbox full"}] :
     /\ (b.reason # Null) => shouldSetFailedStatus(b.type)
     /\ Unrecognized(b.type) => b.emailId = 0}

\* The store the webhook sees: campaigns that were sent, and recipients of the
\* first campaign that carry the message id the provider returned for them.
SentRecipient(r) ==
  [campaignId |-> r[1], status |-> "SENT", sentAt |-> 1, errorMessage |-> Null,
   resendEmailId |-> MessageId(r), lastEvent |-> Null]

InitWebhook ==
  /\ InitAux
  /\ secret \in {"", "whsec"}
  /\ emailCampaign = [c \in CampaignIds |-> [status |-> "SENT", scheduledAt |-> 1, sentAt |-> 1]]
  /\ \E n \in 0..MaxRecipients :
       emailRecipient = [r \in {q \in AllRecipientIds : q[1] = 1 /\ q[2] <= n} |->
                           SentRecipient(r)]
  /\ events = [e \in EventIds |-> Unsigned]
  /\ clock = MaxTime
  /\ InitLocals
  /\ InitHistory
  /\ InitWebhookIdle

\* The requests the handler may receive: one whose signature verifies for each
\* event, and, under the svix-id of the first event, one whose signature does not
\* verify and one for each missing header.
Requests ==
  {[svixId |-> e, svixTimestamp |-> TRUE, svixSignature |-> TRUE, valid |-> TRUE] :
     e \in EventIds}
  \cup {[svixId |-> 1, svixTimestamp |-> TRUE, svixSignature |-> TRUE, valid |-> FALSE],
        [svixId |-> 0, svixTimestamp |-> TRUE, svixSignature |-> TRUE, valid |-> FALSE],
        [svixId |-> 1, svixTimestamp |-> FALSE, svixSignature |-> TRUE, valid |-> FALSE],
        [svixId |-> 1, svixTimestamp |-> TRUE, svixSignature |-> FALSE, valid |-> FALSE]}

\* !svixId || !svixTimestamp || !svixSignature
MissingHeaders(q) == q.svixId = 0 \/ ~q.svixTimestamp \/ ~q.svixSignature

\* Variant that is not the code's: a verification that never throws.
VerifiesAlways(q) == TRUE

\* wh.verify(payload, headers) returns the body, or throws
Verifies(q) == q.valid

\* prisma.webhookEvent.findUnique({ where: { svixId } })
Existing(id) == \E k \in 1..Len(webhookEvent) : webhookEvent[k].svixId = id

\* Variant that is not the code's: a webhookEvent table without the unique key.
UniqueViolationNever(id) == FALSE

\* svixId is a unique column (it is the key of findUnique): create rejects a second
\* row with the same svixId.
UniqueViolation(id) == \E k \in 1..Len(webhookEvent) : webhookEvent[k].svixId = id

\* errorMessage of the handler: bounce.message, failed.reason, or null
EventErrorMessage(body) == IF shouldSetFailedStatus(body.type) THEN body.reason ELSE Null

\* updateData applied to one row
UpdateData(row, body) ==
  LET withEvent == [row EXCEPT !.lastEvent = eventToLastEvent(body.type)]
      withStatus == IF shouldSetFailedStatus(body.type)
                    THEN [withEvent EXCEPT !.status = "FAILED"]
                    ELSE withEvent
  IN IF shouldSetFailedStatus(body.type) /\ EventErrorMessage(body) \notin {Null, ""}
     THEN [withStatus EXCEPT !.errorMessage = EventErrorMessage(body)]
     ELSE withStatus

Respond(h, status) ==
  /\ wres' = [wres EXCEPT ![h] = status]
  /\ wpc' = [wpc EXCEPT ![h] = "done"]

\* From the entry of POST to the first store call.
Receive(h) ==
  /\ wpc[h] = "idle"
  /\ \A g \in Deliveries : g < h => wpc[g] # "idle"
  /\ \E q \in Requests :
       /\ wreq' = [wreq EXCEPT ![h] = q]
       /\ IF q.valid /\ events[q.svixId] = Unsigned
          THEN \E b \in EventBodies : events' = [events EXCEPT ![q.svixId] = b]
          ELSE UNCHANGED events
       /\ IF secret = "" THEN Respond(h, 500)
          ELSE IF MissingHeaders(q) THEN Respond(h, 400)
          ELSE IF ~Verifies(q) THEN Respond(h, 401)
          ELSE IF Unrecognized(events'[q.svixId].type) THEN Respond(h, 200)
          ELSE /\ wpc' = [wpc EXCEPT ![h] = "find"]
               /\ UNCHANGED wres
  /\ UNCHANGED <<cronVars, auxVars, webhookEvent, secret, mutations, writes>>

\* const existing = await prisma.webhookEvent.findUnique(...); if (existing) return
FindExisting(h) ==
  /\ wpc[h] = "find"
  /\ IF Existing(wreq[h].svixId)
     THEN Respond(h, 200)
     ELSE /\ wpc' = [wpc EXCEPT ![h] = "create"]
          /\ UNCHANGED wres
  /\ UNCHANGED <<cronVars, auxVars, webhookEvent, secret, events, wreq, mutations, writes>>

\* await prisma.webhookEvent.create(...); if (!emailId) return
Create(h) ==
  /\ wpc[h] = "create"
  /\ LET id == wreq[h].svixId
         body == events[id]
     IN IF UniqueViolation(id)
        THEN /\ Respond(h, 500)
             /\ UNCHANGED <<webhookEvent, writes>>
        ELSE /\ webhookEvent' = Append(webhookEvent,
                                       [svixId |-> id, type |-> body.type,
                                        emailId |-> body.emailId])
             /\ writes' = [writes EXCEPT ![h] = @ \cup {"webhookEvent"}]
             /\ IF body.emailId = 0
                THEN Respond(h, 200)
                ELSE /\ wpc' = [wpc EXCEPT ![h] = "update"]
                     /\ UNCHANGED wres
  /\ UNCHANGED <<cronVars, auxVars, secret, events, wreq, mutations>>

\* await prisma.emailRecipient.updateMany({ where: { resendEmailId: emailId }, data })
UpdateRecipients(h) ==
  /\ wpc[h] = "update"
  /\ LET id == wreq[h].svixId
         body == events[id]
     IN /\ emailRecipient' =
             [r \in DOMAIN emailRecipient |->
                IF emailRecipient[r].resendEmailId = body.emailId
                THEN UpdateData(emailRecipient[r], body)
                ELSE emailRecipient[r]]
        /\ mutations' = [mutations EXCEPT ![id] = @ + 1]
        /\ writes' = [writes EXCEPT ![h] = @ \cup {"emailRecipient"}]
  /\ Respond(h, 200)
  /\ UNCHANGED <<emailCampaign, clock, pc, now, campaigns, idx, recipientsToProcess,
                 emailResults, sendI, ri, successCount, failedCount, processed, totalSent,
                 totalFailed, errors, thrown, providerCalls, nextId, claimLog, zeroRows,
                 attempts, finished, faults, webhookEvent, secret, events, wreq, auxVars>>

NextWebhook ==
  \E h \in Deliveries :
    \/ Receive(h)
    \/ FindExisting(h)
    \/ Create(h)
    \/ UpdateRecipients(h)

SpecWebhook == InitWebhook /\ [][NextWebhook]_vars

\* emailRecipient.updateMany rejects (without effect): the outer catch answers 500;
\* the webhookEvent row created before stays.
UpdateRecipientsThrows(h) ==
  /\ wpc[h] = "update"
  /\ Respond(h, 500)
  /\ UNCHANGED <<cronVars, auxVars, webhookEvent, secret, events, wreq, mutations, writes>>

NextWebhookFault ==
  \/ NextWebhook
  \/ \E h \in Deliveries : UpdateRecipientsThrows(h)

\* The webhook over a store whose recipient update may reject.
SpecWebhookFault == InitWebhook /\ [][NextWebhookFault]_vars

\* ------------------------------------------------- cron route GET / POST

\* The Authorization headers a request may carry: none, the secret as a bearer
\* token, another bearer token, the bare secret, and an empty bearer token.
AuthHeaders == {Null, "Bearer s3cret", "Bearer wrong", "s3cret", "Bearer "}

\* `Bearer ${cronSecret}`
Bearer(cronSecret) == "Bearer " \o cronSecret

\* Variant that is not the code's: any Authorization header is accepted.
AuthorizedAnyHeader(h) == h # Null

\* !(authHeader !== `Bearer ${cronSecret}`)
Authorized(h) == h = Bearer(CRON_SECRET)

InitTrigger ==
  /\ InitCron
  /\ InitBulkIdle
  /\ InitWorker
  /\ InitManualIdle
  /\ NODE_ENV \in {"production", "development"}
  /\ CRON_SECRET \in {"", "s3cret"}
  /\ authHeader = Null
  /\ gpc = "idle"
  /\ gres = 0

\* From the entry of GET to the call of processScheduledEmails: in production the
\* request is answered 401 when CRON_SECRET is unset or the header differs.
GetReceive ==
  /\ gpc = "idle"
  /\ \E h \in AuthHeaders :
       /\ authHeader' = h
       /\ IF NODE_ENV = "production" /\ (CRON_SECRET = "" \/ ~Authorized(h))
          THEN gres' = 401 /\ gpc' = "done"
          ELSE gres' = gres /\ gpc' = "run"
  /\ UNCHANGED <<NODE_ENV, CRON_SECRET, cronVars, webVars, bulkVars, workerVars,
                 manualVars>>

\* const result = await processScheduledEmails() has settled: 200 with the
\* summary, or 500 from the catch block.
GetRespond ==
  /\ gpc = "run"
  /\ pc["http"] \in {"done", "rejected"}
  /\ gres' = IF pc["http"] = "done" THEN 200 ELSE 500
  /\ gpc' = "done"
  /\ UNCHANGED <<NODE_ENV, CRON_SECRET, authHeader, cronVars, webVars, bulkVars, workerVars,
                 manualVars>>

NextTrigger ==
  \/ GetReceive
  \/ Step("http")
  \/ QueryThrows("http")
  \/ GetRespond

SpecTrigger == InitTrigger /\ [][NextTrigger]_vars

\* ------------------------------------------- sendBulkEmails, called alone

\* options.batchSize: zero, two small sizes, the default, and one above the cap.
BatchSizeOptions == {0, 1, 2, 10, 150}

\* Turns of the chunk loop that are followed: one more than any list needs when
\* every chunk holds a message.
MaxBulkCalls == MaxEmails + 1

\* The input list: n messages with distinct addresses.
EmailList(n) == [k \in 1..n |-> <<1, k>>]

\* What resend.batch.send may answer, beyond ProviderResponses: an error with a
\* message, a thrown value that is no Error, and a data array that is shorter or
\* longer than the batch.
BulkResponses(batch, base) ==
  ProviderResponses(batch, base)
  \cup {[kind |-> "error", message |-> "Rate limit exceeded", thrown |-> FALSE, items |-> <<>>],
        [kind |-> "throw", message |-> "", thrown |-> FALSE, items |-> <<>>]}
  \cup {[kind |-> "data", message |-> "", thrown |-> FALSE,
         items |-> [k \in 1..n |-> base + k]] :
          n \in (0..(Len(batch) + 1)) \ {Len(batch)}}

\* sendBulkEmails does not touch the store: drafts only, no recipients.
InitBulk ==
  /\ secret = "whsec"
  /\ events = [e \in EventIds |-> Unsigned]
  /\ InitWebhookIdle
  /\ emailCampaign = [c \in CampaignIds |-> [status |-> "DRAFT", scheduledAt |-> 0, sentAt |-> 0]]
  /\ emailRecipient = [r \in {} |-> NewRecipient(1)]
  /\ clock = MaxTime
  /\ InitLocals
  /\ InitHistory
  /\ InitTriggerIdle
  /\ InitWorker
  /\ InitManualIdle
  /\ \E n \in 0..MaxEmails : bulkEmails = EmailList(n)
  /\ bulkOption \in BatchSizeOptions
  /\ bulkI = 0
  /\ bulkResults = <<>>
  /\ bulkPc = "loop"
  /\ bulkCalls = <<>>

\* One turn of for (let i = 0; i < emails.length; i += batchSize).
BulkChunk ==
  /\ bulkPc = "loop"
  /\ bulkI < Len(bulkEmails)
  /\ Len(bulkCalls) < MaxBulkCalls
  /\ LET batchSize == BatchSize(bulkOption)
         batch == Batch(bulkEmails, bulkI, batchSize)
     IN /\ \E resp \in BulkResponses(batch, bulkI) :
             /\ bulkResults' = bulkResults \o ChunkResults(batch, resp)
             /\ bulkCalls' = Append(bulkCalls,
                                    [to |-> batch, response |-> resp,
                                     delayAfter |-> bulkI + batchSize < Len(bulkEmails)])
        /\ bulkI' = bulkI + batchSize
  /\ UNCHANGED <<bulkEmails, bulkOption, bulkPc, cronVars, webVars, triggerVars, workerVars, manualVars>>

\* return results
BulkReturn ==
  /\ bulkPc = "loop"
  /\ ~(bulkI < Len(bulkEmails))
  /\ bulkPc' = "returned"
  /\ UNCHANGED <<bulkEmails, bulkOption, bulkI, bulkResults, bulkCalls, cronVars, webVars,
                 triggerVars, workerVars, manualVars>>

NextBulk == BulkChunk \/ BulkReturn

SpecBulk == InitBulk /\ [][NextBulk]_vars

\* The call is not abandoned: the loop is followed as long as it has a next turn.
SpecBulkFair == SpecBulk /\ WF_vars(NextBulk)

\* ------------------------------------------------------ lib/cron-worker.ts

\* A run of processScheduledEmails is a promise in flight from its call to the
\* callbacks that settle it; what the run does to the store is the engine above.

\* startCronWorker(): nothing when a timer exists; otherwise one run at once,
\* started without looking at or setting isProcessing, and a new timer.
StartCronWorker ==
  /\ workerCalls < MaxWorkerCalls
  /\ workerCalls' = workerCalls + 1
  /\ IF intervalId # 0
     THEN UNCHANGED <<intervalId, activeTimers, initialRuns>>
     ELSE /\ initialRuns' = initialRuns + 1
          /\ intervalId' = workerCalls + 1
          /\ activeTimers' = activeTimers \cup {workerCalls + 1}
  /\ UNCHANGED <<isProcessing, tickRuns, ticks, cronVars, webVars, triggerVars, bulkVars, manualVars>>

\* stopCronWorker(): clearInterval(intervalId); intervalId = null
StopCronWorker ==
  /\ workerCalls < MaxWorkerCalls
  /\ workerCalls' = workerCalls + 1
  /\ IF intervalId # 0
     THEN /\ activeTimers' = activeTimers \ {intervalId}
          /\ intervalId' = 0
     ELSE UNCHANGED <<intervalId, activeTimers>>
  /\ UNCHANGED <<isProcessing, initialRuns, tickRuns, ticks, cronVars, webVars, triggerVars,
                 bulkVars, manualVars>>

\* The setInterval callback: return when isProcessing, else set it and start a run.
Tick ==
  /\ ticks < MaxTicks
  /\ activeTimers # {}
  /\ ticks' = ticks + 1
  /\ IF isProcessing
     THEN UNCHANGED <<isProcessing, tickRuns>>
     ELSE /\ isProcessing' = TRUE
          /\ tickRuns' = tickRuns + 1
  /\ UNCHANGED <<intervalId, activeTimers, initialRuns, workerCalls, cronVars, webVars,
                 triggerVars, bulkVars, manualVars>>

\* The run started by startCronWorker settles: .then / .catch only log.
InitialRunSettles ==
  /\ initialRuns > 0
  /\ initialRuns' = initialRuns - 1
  /\ UNCHANGED <<intervalId, isProcessing, activeTimers, tickRuns, workerCalls, ticks,
                 cronVars, webVars, triggerVars, bulkVars, manualVars>>

\* A run started by a tick settles: .finally(() => { isProcessing = false })
TickRunSettles ==
  /\ tickRuns > 0
  /\ tickRuns' = tickRuns - 1
  /\ isProcessing' = FALSE
  /\ UNCHANGED <<intervalId, activeTimers, initialRuns, workerCalls, ticks, cronVars,
                 webVars, triggerVars, bulkVars, manualVars>>

NextWorker ==
  \/ StartCronWorker
  \/ StopCronWorker
  \/ Tick
  \/ InitialRunSettles
  \/ TickRunSettles

\* The worker alone: the store keeps only drafts, so that its runs find nothing.
SpecWorker == InitBulk /\ [][NextWorker]_vars

\* --------------------------------------- app/api/emails/[id]/send/route.ts

\* POST up to the first write: 401 without a session, 404 when findFirst finds no
\* campaign of that user, 400 when the campaign has no PENDING recipient.
ManualReceive ==
  /\ mpc = "idle"
  /\ \E session \in BOOLEAN, id \in CampaignIds, own \in BOOLEAN :
       IF ~session
       THEN /\ mres' = 401 /\ mpc' = "done" /\ UNCHANGED <<mid, mRecipients>>
       ELSE IF ~own
       THEN /\ mres' = 404 /\ mpc' = "done" /\ mid' = id /\ UNCHANGED mRecipients
       ELSE IF Len(PendingRecipients(id)) = 0
       THEN /\ mres' = 400 /\ mpc' = "done" /\ mid' = id /\ UNCHANGED mRecipients
       ELSE /\ mpc' = "sending" /\ mid' = id /\ mRecipients' = PendingRecipients(id)
            /\ UNCHANGED mres
  /\ UNCHANGED <<mResults, mSendI, mRi, mSuccessCount, mFailedCount>>
  /\ UNCHANGED <<cronVars, webVars, triggerVars, bulkVars, workerVars>>

\* prisma.emailCampaign.update({ where: { id }, data: { status: SENDING } })
ManualMarkSending ==
  /\ mpc = "sending"
  /\ emailCampaign' = [emailCampaign EXCEPT ![mid].status = "SENDING"]
  /\ mpc' = "send"
  /\ UNCHANGED <<mid, mRecipients, mResults, mSendI, mRi, mSuccessCount, mFailedCount, mres>>
  /\ UNCHANGED <<emailRecipient, clock, pc, now, campaigns, idx, recipientsToProcess,
                 emailResults, sendI, ri, successCount, failedCount, processed, totalSent,
                 totalFailed, errors, thrown, providerCalls, nextId, claimLog, zeroRows,
                 attempts, finished, faults>>
  /\ UNCHANGED <<webVars, triggerVars, bulkVars, workerVars>>

\* One turn of the chunk loop of sendBulkEmails(emails, { batchSize: 10, ... }).
ManualSendChunk ==
  /\ mpc = "send"
  /\ LET batchSize == BatchSize(CronBatchSize)
         batch == Batch(mRecipients, mSendI, batchSize)
     IN /\ \E resp \in ProviderResponses(batch, nextId) :
             /\ mResults' = mResults \o ChunkResults(batch, resp)
             /\ providerCalls' = Append(providerCalls,
                                        [inv |-> "manual", campaignId |-> mid,
                                         to |-> batch, response |-> resp,
                                         batchIndex |-> BatchIndex(mSendI, batchSize),
                                         idempotencyKey |->
                                           IdempotencyKey(mid, BatchIndex(mSendI, batchSize))])
        /\ nextId' = nextId + Len(batch)
        /\ IF mSendI + batchSize < Len(mRecipients)
           THEN /\ mSendI' = mSendI + batchSize
                /\ UNCHANGED <<mpc, mRi>>
           ELSE /\ mpc' = "reconcile"
                /\ mRi' = 1
                /\ UNCHANGED mSendI
  /\ UNCHANGED <<mid, mRecipients, mSuccessCount, mFailedCount, mres>>
  /\ UNCHANGED <<emailCampaign, emailRecipient, clock, pc, now, campaigns, idx,
                 recipientsToProcess, emailResults, sendI, ri, successCount, failedCount,
                 processed, totalSent, totalFailed, errors, thrown, claimLog, zeroRows,
                 attempts, finished, faults>>
  /\ UNCHANGED <<webVars, triggerVars, bulkVars, workerVars>>

\* One turn of the loop over campaign.recipients: prisma.emailRecipient.update
\* ({ where: { id: recipient.id }, data }) whatever the stored status is.
ManualReconcile ==
  /\ mpc = "reconcile"
  /\ LET r == mRecipients[mRi]
         result == ResultAt(mResults, mRi)
     IN IF result.success
        THEN /\ emailRecipient' = [emailRecipient EXCEPT ![r].status = "SENT",
                                                         ![r].sentAt = clock,
                                                         ![r].resendEmailId = result.resendEmailId]
             /\ mSuccessCount' = mSuccessCount + 1
             /\ UNCHANGED mFailedCount
        ELSE /\ emailRecipient' = [emailRecipient EXCEPT ![r].status = "FAILED",
                                                         ![r].errorMessage = ErrorOf(result)]
             /\ mFailedCount' = mFailedCount + 1
             /\ UNCHANGED mSuccessCount
  /\ mRi' = mRi + 1
  /\ mpc' = IF mRi < Len(mRecipients) THEN "reconcile" ELSE "final"
  /\ UNCHANGED <<mid, mRecipients, mResults, mSendI, mres>>
  /\ UNCHANGED <<emailCampaign, clock, pc, now, campaigns, idx, recipientsToProcess,
                 emailResults, sendI, ri, successCount, failedCount, processed, totalSent,
                 totalFailed, errors, thrown, providerCalls, nextId, claimLog, zeroRows,
                 attempts, finished, faults>>
  /\ UNCHANGED <<webVars, triggerVars, bulkVars, workerVars>>

\* prisma.emailCampaign.update({ where: { id }, data: { status: finalStatus, sentAt } }),
\* then 500 when every send failed and 200 otherwise.
ManualFinalize ==
  /\ mpc = "final"
  /\ emailCampaign' = [emailCampaign EXCEPT
                         ![mid] = FinalData(@, FinalStatus(mSuccessCount, mFailedCount))]
  /\ mres' = IF mFailedCount > 0 /\ mSuccessCount = 0 THEN 500 ELSE 200
  /\ mpc' = "done"
  /\ UNCHANGED <<mid, mRecipients, mResults, mSendI, mRi, mSuccessCount, mFailedCount>>
  /\ UNCHANGED <<emailRecipient, clock, pc, now, campaigns, idx, recipientsToProcess,
                 emailResults, sendI, ri, successCount, failedCount, processed, totalSent,
                 totalFailed, errors, thrown, providerCalls, nextId, claimLog, zeroRows,
                 attempts, finished, faults>>
  /\ UNCHANGED <<webVars, triggerVars, bulkVars, workerVars>>

NextManual ==
  \/ Next
  \/ ManualReceive
  \/ ManualMarkSending
  \/ ManualSendChunk
  \/ ManualReconcile
  \/ ManualFinalize

\* The engine beside one manual send request, over a store whose calls never reject.
SpecManual == InitDue /\ [][NextManual]_vars

\* ================================================================ claims

InSeq(s, x) == \E k \in 1..Len(s) : s[k] = x
Position(s, x) == CHOOSE k \in 1..Len(s) : s[k] = x
Range(s) == {s[k] : k \in 1..Len(s)}

CandidateOf(i, c) == \E p \in 1..Len(campaigns[i]) : campaigns[i][p].id = c
RecipientsOf(c) == {r \in DOMAIN emailRecipient : emailRecipient[r].campaignId = c}

\* The provider calls made for campaign c, the recipients a call addresses, and
\* those whose message the provider accepted (it returned an id for it).
CallsFor(c) == {k \in 1..Len(providerCalls) : providerCalls[k].campaignId = c}
Addressed(k) == Range(providerCalls[k].to)
Accepted(k) ==
  LET call == providerCalls[k]
  IN IF call.response.kind = "data"
     THEN {call.to[j] : j \in {m \in 1..Len(call.to) :
                                 m <= Len(call.response.items) /\ call.response.items[m] # 0}}
     ELSE {}
SentTo(c) == UNION {Accepted(k) : k \in CallsFor(c)}
FailedTo(c) == UNION {Addressed(k) \ Accepted(k) : k \in CallsFor(c)}

\* No invocation is inside processScheduledEmails, and one has returned.
Quiescent ==
  /\ \A i \in Invocations : pc[i] \in {"idle", "done"}
  /\ \E i \in Invocations : pc[i] = "done"

\* The campaign was SCHEDULED and due when the runs started (the clock stands still
\* and no step changes scheduledAt).
WasDue(c) == emailCampaign[c].scheduledAt # 0 /\ emailCampaign[c].scheduledAt <= clock

\* ---- C1
\* C1: at-most-once claim.  Whatever the interleaving of the invocations, a
\* campaign's SCHEDULED -> SENDING update affects a row for at most one invocation;
\* once any invocation has attempted the claim of a campaign, exactly one
\* invocation has performed the transition, and every invocation that attempted it
\* either is that one or observed a zero-row update, never both.
C1_AtMostOnceClaim ==
  \A c \in CampaignIds :
    /\ Len(claimLog[c]) <= 1
    /\ (\E i \in Invocations : InSeq(attempts[i], c)) => Len(claimLog[c]) = 1
    /\ \A i \in Invocations :
         InSeq(attempts[i], c) => (InSeq(claimLog[c], i) # (<<i, c>> \in zeroRows))

\* Both invocations selected the campaign while it was SCHEDULED; the one that
\* started later claimed it and the other one's update affected no row.
C1_Witness ==
  \E c \in CampaignIds :
    /\ claimLog[c] = <<"http">>
    /\ <<"timer", c>> \in zeroRows
    /\ emailCampaign[c].status = "SENDING"

\* ---- C2
\* C2: no double-sending.  Over any interleaving of the timer-driven and the
\* HTTP-triggered invocation, every recipient is addressed by at most one
\* resend.batch.send call, and at most once inside that call.
C2_NoDoubleSend ==
  /\ \A r \in DOMAIN emailRecipient :
       Cardinality({k \in 1..Len(providerCalls) : r \in Addressed(k)}) <= 1
  /\ \A k \in 1..Len(providerCalls) :
       Cardinality(Addressed(k)) = Len(providerCalls[k].to)

\* Both invocations had the recipient's campaign in their candidate list, both have
\* returned, and the recipient was addressed by a provider call.
C2_Witness ==
  \E r \in DOMAIN emailRecipient :
    /\ \A i \in Invocations : pc[i] = "done" /\ CandidateOf(i, r[1])
    /\ \E k \in 1..Len(providerCalls) : r \in Addressed(k)
    /\ emailRecipient[r].status = "SENT"

\* ---- C3
\* The statuses a single run leaves, as a function of the initial store and of what
\* the provider answers for each recipient.
SerialCampaignStatus(c) ==
  IF ~WasDue(c) THEN (IF emailCampaign[c].scheduledAt = 0 THEN "DRAFT" ELSE "SCHEDULED")
  ELSE IF RecipientsOf(c) = {} THEN "SENT"
  ELSE IF SentTo(c) # {} THEN "SENT"
  ELSE "FAILED"

SerialRecipientStatus(r) ==
  IF ~WasDue(r[1]) THEN "PENDING"
  ELSE IF r \in SentTo(r[1]) THEN "SENT"
  ELSE "FAILED"

PartialFailure(c) == SentTo(c) # {} /\ FailedTo(c) # {}

\* C4: partial batch failure.  When the provider accepts some and fails some of
\* the messages of a campaign an invocation claimed and finished, the campaign is
\* SENT, exactly the recipients whose message failed are FAILED with a non-empty
\* errorMessage and every other recipient is SENT; the totals the invocation
\* returns are the number of accepted and the number of failed messages of the
\* campaigns it finished.
C4_PartialBatchFailure ==
  \A i \in Invocations :
    /\ \A c \in Range(finished[i]) :
         PartialFailure(c) =>
           /\ emailCampaign[c].status = "SENT"
           /\ \A r \in FailedTo(c) :
                /\ emailRecipient[r].status = "FAILED"
                /\ emailRecipient[r].errorMessage \notin {Null, ""}
           /\ \A r \in RecipientsOf(c) \ FailedTo(c) : emailRecipient[r].status = "SENT"
    /\ pc[i] = "done" =>
         /\ totalSent[i] = Cardinality(UNION {SentTo(c) : c \in Range(finished[i])})
         /\ totalFailed[i] = Cardinality(UNION {FailedTo(c) : c \in Range(finished[i])})

\* An invocation returned after a campaign of which the provider accepted one
\* message and failed another: sent = 1, failed = 1 for that campaign.
C4_Witness ==
  \E i \in Invocations, c \in CampaignIds :
    /\ pc[i] = "done"
    /\ InSeq(finished[i], c)
    /\ PartialFailure(c)
    /\ totalSent[i] = Cardinality(SentTo(c))
    /\ totalFailed[i] = Cardinality(FailedTo(c))
    /\ emailCampaign[c].status = "SENT"

\* ---- C5
AllFailed(c) == CallsFor(c) # {} /\ SentTo(c) = {}

\* C5: all-fail campaign.  A campaign none of whose messages the provider accepted
\* (each item rejected, or the whole chunk answered with an error, with nothing
\* or by a throw) is never SENT, and is FAILED once the invocation that claimed it
\* has finished it.
C5_AllFailCampaign ==
  \A c \in CampaignIds :
    AllFailed(c) =>
      /\ emailCampaign[c].status # "SENT"
      /\ (\E i \in Invocations : InSeq(finished[i], c)) =>
           /\ emailCampaign[c].status = "FAILED"
           /\ \A r \in RecipientsOf(c) : emailRecipient[r].status = "FAILED"

\* Two finished campaigns, one whose only message was rejected item by item and
\* one whose chunk the provider answered with an error; both are FAILED.
C5_Witness ==
  \E c, d \in CampaignIds :
    /\ \A x \in {c, d} : AllFailed(x) /\ \E i \in Invocations : InSeq(finished[i], x)
    /\ \E k \in CallsFor(c) : providerCalls[k].response.kind = "data"
    /\ \E k \in CallsFor(d) : providerCalls[k].response.kind = "error"
    /\ emailCampaign[c].status = "FAILED" /\ emailCampaign[d].status = "FAILED"

\* ---- C6
\* C6: no-recipient campaign.  A due campaign without PENDING recipients is SENDING
\* between its claim and the update of the no-recipient branch; once the
\* invocation has left that branch the campaign is SENT with sentAt set; no
\* provider call is ever made for it; and an invocation that returns has finished
\* every such candidate it claimed.
C6_NoRecipientCampaign ==
  \A i \in Invocations :
    /\ pc[i] = "norecipients" =>
         /\ emailCampaign[Campaign(i).id].status = "SENDING"
         /\ CallsFor(Campaign(i).id) = {}
    /\ \A c \in Range(finished[i]) :
         RecipientsOf(c) = {} =>
           /\ emailCampaign[c].status = "SENT"
           /\ emailCampaign[c].sentAt # 0
           /\ CallsFor(c) = {}
    /\ pc[i] = "done" =>
         \A c \in CampaignIds :
           (CandidateOf(i, c) /\ RecipientsOf(c) = {} /\ <<i, c>> \notin zeroRows)
             => InSeq(finished[i], c)

\* A campaign without recipients went through the no-recipient branch.
C6_Witness ==
  \E i \in Invocations, c \in CampaignIds :
    /\ InSeq(finished[i], c)
    /\ RecipientsOf(c) = {}
    /\ emailCampaign[c].status = "SENT"
    /\ emailCampaign[c].sentAt = clock
    /\ providerCalls = <<>>

\* ---- C7
\* C7: ordering.  When an invocation has two candidates with scheduledAt t1 < t2
\* and has attempted the claim of the t2 campaign, it attempted the claim of the
\* t1 campaign before, and if that claim was its own it has finished the t1
\* campaign, whose terminal status is written.
C7_Ordering ==
  \A i \in Invocations : \A a, b \in CampaignIds :
    ( /\ CandidateOf(i, a) /\ CandidateOf(i, b)
      /\ emailCampaign[a].scheduledAt < emailCampaign[b].scheduledAt
      /\ InSeq(attempts[i], b) )
    => /\ InSeq(attempts[i], a)
       /\ Position(attempts[i], a) < Position(attempts[i], b)
       /\ InSeq(claimLog[a], i) =>
            /\ InSeq(finished[i], a)
            /\ emailCampaign[a].status \in {"SENT", "FAILED"}

\* A single invocation, alone, has finished the earlier of two due campaigns and
\* is about to process the later one, which it has just claimed.
C7_Witness ==
  /\ pc["http"] = "idle"
  /\ \E a, b \in CampaignIds :
       /\ emailCampaign[a].scheduledAt < emailCampaign[b].scheduledAt
       /\ attempts["timer"] = <<a, b>>
       /\ finished["timer"] = <<a>>
       /\ emailCampaign[a].status \in {"SENT", "FAILED"}
       /\ emailCampaign[b].status = "SENDING"

\* ---- C8
\* C8: exception isolation.  An invocation that has left processScheduledEmails,
\* by its return statement or by an exception, has attempted the claim of every
\* campaign of its candidate list, whatever store call rejected on the way.
C8_ExceptionIsolation ==
  \A i \in Invocations :
    pc[i] \in {"done", "rejected"} =>
      \A p \in 1..Len(campaigns[i]) : InSeq(attempts[i], campaigns[i][p].id)

\* ---- C9
RowsOf(e) == {k \in 1..Len(webhookEvent) : webhookEvent[k].svixId = e}
DeliveredTo(e) == {h \in Deliveries : wpc[h] # "idle" /\ wreq[h].valid /\ wreq[h].svixId = e}

\* C9: idempotent webhook.  However often and however interleaved a signed event
\* is delivered, the store holds at most one webhookEvent row for its svix-id and
\* at most one request wrote one, at most one emailRecipient.updateMany is made for
\* it, and once every delivery of a delivery-lifecycle event has been answered
\* there is exactly one row.
C9_IdempotentWebhook ==
  \A e \in EventIds :
    /\ Cardinality(RowsOf(e)) <= 1
    /\ Cardinality({h \in DeliveredTo(e) : "webhookEvent" \in writes[h]}) <= 1
    /\ Cardinality({h \in DeliveredTo(e) : "emailRecipient" \in writes[h]}) <= 1
    /\ mutations[e] <= 1
    /\ ( /\ secret # ""
         /\ DeliveredTo(e) # {}
         /\ \A h \in DeliveredTo(e) : wpc[h] = "done"
         /\ events[e].type \in EMAIL_EVENTS )
       => Cardinality(RowsOf(e)) = 1

\* The same event was delivered twice, concurrently: both requests passed the
\* findUnique check, one created the row and updated the recipient, the create of
\* the other was rejected by the unique key.
C9_Witness ==
  \E e \in EventIds : \E g, h \in DeliveredTo(e) :
    /\ g # h
    /\ wres[g] = 200 /\ wres[h] = 500
    /\ writes[g] = {"webhookEvent", "emailRecipient"}
    /\ writes[h] = {}
    /\ Cardinality(RowsOf(e)) = 1
    /\ mutations[e] = 1
    /\ \E r \in DOMAIN emailRecipient : emailRecipient[r].lastEvent # Null

\* ---- C10
HeadersAbsent(q) == q.svixId = 0 \/ ~q.svixTimestamp \/ ~q.svixSignature
NotLifecycle(q) == q.valid /\ events[q.svixId].type \notin EMAIL_EVENTS

\* C10: a request whose svix headers are absent, whose signature does not verify,
\* or whose event type is no delivery-lifecycle type is answered at once, wrote
\* neither a webhookEvent row nor a recipient, and (the secret being configured) is
\* answered 400 in the first case, 401 in the second and 200 in the third.
C10_WebhookRejects ==
  \A h \in Deliveries :
    (wpc[h] # "idle" /\ (HeadersAbsent(wreq[h]) \/ ~wreq[h].valid \/ NotLifecycle(wreq[h])))
    => /\ wpc[h] = "done"
       /\ writes[h] = {}
       /\ secret # "" =>
            wres[h] = IF HeadersAbsent(wreq[h]) THEN 400
                      ELSE IF ~wreq[h].valid THEN 401
                      ELSE 200

\* One request was rejected for its signature and one, of a type outside the
\* delivery lifecycle, was acknowledged; the store is as it was.
C10_Witness ==
  \E g, h \in Deliveries :
    /\ ~HeadersAbsent(wreq[g]) /\ ~wreq[g].valid /\ wres[g] = 401
    /\ NotLifecycle(wreq[h]) /\ events[wreq[h].svixId].type = "contact.created"
    /\ wres[h] = 200
    /\ webhookEvent = <<>>
    /\ \A r \in DOMAIN emailRecipient : emailRecipient[r].lastEvent = Null

\* ---- C11
\* The request carries something else than `Bearer ${CRON_SECRET}`, or no secret
\* is configured.
Mismatch == CRON_SECRET = "" \/ authHeader # "Bearer " \o CRON_SECRET

\* processScheduledEmails was not called for the request: the HTTP invocation has
\* not read the clock, queried the store or had a store call reject.
NotInvoked == pc["http"] = "idle" /\ now["http"] = 0 /\ attempts["http"] = <<>> /\ faults = 0

\* C11 as stated: a request whose Authorization header is not exactly
\* `Bearer <CRON_SECRET>` is answered 401 and processScheduledEmails is never
\* invoked for it, whatever NODE_ENV is.
C11_TriggerAuthentication ==
  (gpc # "idle" /\ Mismatch) => (gpc = "done" /\ gres = 401 /\ NotInvoked)

\* C11, in production: when NODE_ENV is "production", a request whose
\* Authorization header is not exactly `Bearer <CRON_SECRET>`, or any request
\* while CRON_SECRET is unset, is answered 401 and processScheduledEmails is never
\* invoked for it.
C11_TriggerAuthenticationProduction ==
  (gpc # "idle" /\ NODE_ENV = "production" /\ Mismatch)
    => (gpc = "done" /\ gres = 401 /\ NotInvoked)

\* In production a request that carries the bare secret, without the Bearer
\* prefix, was rejected while a campaign was due.
C11_Witness ==
  /\ NODE_ENV = "production"
  /\ CRON_SECRET = "s3cret"
  /\ authHeader = "s3cret"
  /\ gres = 401
  /\ NotInvoked
  /\ \E c \in CampaignIds : IsDue(c, clock)

\* ---- C12
Ended(i) == pc[i] \in {"done", "rejected"}

\* C12: run to terminal state.  Every campaign an invocation moved to SENDING is
\* SENT or FAILED once that invocation has ended, by its return statement or by an
\* exception, whatever store call rejected after the claim; and once every
\* invocation has ended no campaign is SENDING.
C12_RunToTerminal ==
  /\ \A i \in Invocations : \A c \in CampaignIds :
       (Ended(i) /\ InSeq(claimLog[c], i)) => emailCampaign[c].status \in {"SENT", "FAILED"}
  /\ (\A i \in Invocations : Ended(i)) =>
       \A c \in CampaignIds : emailCampaign[c].status # "SENDING"

\* ---- C13
\* C13: outcome list shape.  Whatever the input list, the batch size and the
\* provider's answers, sendBulkEmails returns exactly one outcome per input
\* message, and outcome i carries the address of input message i.
C13_OutcomeListShape ==
  bulkPc = "returned" =>
    /\ Len(bulkResults) = Len(bulkEmails)
    /\ \A k \in 1..Len(bulkEmails) : bulkResults[k].to = bulkEmails[k]

\* ---- C14
\* The message the members of a chunk share when the call for the chunk returned
\* an error or threw.
SharedMessage(resp) ==
  IF resp.kind = "error"
  THEN (IF resp.message = "" THEN "Batch send failed" ELSE resp.message)
  ELSE (IF resp.thrown THEN resp.message ELSE "Failed to send")

RECURSIVE Flatten(_)
Flatten(ss) == IF ss = <<>> THEN <<>> ELSE Head(ss) \o Flatten(Tail(ss))

\* C14: chunk-level provider failure is degraded, not raised.  For every chunk
\* whose provider call returned an error or threw, each member of the chunk has
\* exactly one outcome, a failure that carries the message shared by the chunk;
\* the call goes on: when sendBulkEmails has returned, its provider calls, in
\* order, carried every input message once, the chunks after a failed one
\* included.
C14_ChunkFailureDegraded ==
  /\ \A k \in 1..Len(bulkCalls) :
       bulkCalls[k].response.kind \in {"error", "throw"} =>
         \A e \in Range(bulkCalls[k].to) :
           /\ Cardinality({j \in 1..Len(bulkResults) : bulkResults[j].to = e}) = 1
           /\ \A j \in 1..Len(bulkResults) :
                bulkResults[j].to = e =>
                  /\ ~bulkResults[j].success
                  /\ bulkResults[j].error = SharedMessage(bulkCalls[k].response)
  /\ bulkPc = "returned" =>
       Flatten([k \in 1..Len(bulkCalls) |-> bulkCalls[k].to]) = bulkEmails

\* Three messages in chunks of two: the call for the first chunk threw, the call
\* for the second was still made and its message accepted.
C14_Witness ==
  /\ bulkPc = "returned"
  /\ Len(bulkEmails) = 3
  /\ Len(bulkCalls) = 2
  /\ bulkCalls[1].response.kind = "throw"
  /\ bulkCalls[2].response.kind = "data"
  /\ Len(bulkResults) = 3
  /\ ~bulkResults[1].success /\ ~bulkResults[2].success /\ bulkResults[3].success
  /\ bulkResults[1].error = bulkResults[2].error

\* ---- C15
CandidatePosition(i, c) == CHOOSE p \in 1..Len(campaigns[i]) : campaigns[i][p].id = c
CallsBy(i) == {k \in 1..Len(providerCalls) : providerCalls[k].inv = i}

\* C15: contention loss is not an error.  An invocation whose claim update on a
\* candidate affected no row has moved on to a later candidate or returned; it
\* made no provider call for the campaign, has no error entry for it and did not
\* finish it; what it counts as processed are the campaigns it finished, and what
\* it counts as sent and failed are messages of its own provider calls; every
\* recipient of the campaign that is no longer PENDING was addressed by a call of
\* another invocation.
C15_ContentionLoss ==
  \A i \in Invocations : \A c \in CampaignIds :
    <<i, c>> \in zeroRows =>
      /\ pc[i] = "done" \/ idx[i] > CandidatePosition(i, c)
      /\ CallsBy(i) \cap CallsFor(c) = {}
      /\ \A k \in 1..Len(errors[i]) : errors[i][k].campaignId # c
      /\ ~InSeq(finished[i], c)
      /\ processed[i] = Len(finished[i])
      /\ totalSent[i] + totalFailed[i] <= Cardinality(UNION {Addressed(k) : k \in CallsBy(i)})
      /\ pc[i] = "done" =>
           totalSent[i] + totalFailed[i] = Cardinality(UNION {Addressed(k) : k \in CallsBy(i)})
      /\ \A r \in RecipientsOf(c) :
           emailRecipient[r].status # "PENDING" =>
             \E k \in CallsFor(c) \ CallsBy(i) : r \in Addressed(k)

\* The timer invocation lost its only candidate to the HTTP invocation, which sent
\* it; the timer invocation returned with nothing processed, sent or failed and
\* no error.
C15_Witness ==
  \E c \in CampaignIds :
    /\ <<"timer", c>> \in zeroRows
    /\ pc["timer"] = "done"
    /\ emailCampaign[c].status = "SENT"
    /\ \E r \in RecipientsOf(c) : emailRecipient[r].status = "SENT"
    /\ processed["timer"] = 0 /\ totalSent["timer"] = 0 /\ totalFailed["timer"] = 0
    /\ errors["timer"] = <<>>
    /\ processed["http"] = 1


\* C16 (cron worker overlap guard): at most one run of processScheduledEmails
\* started by the worker, the immediate run of startCronWorker included, is in
\* flight at any time, and the worker never holds a second timer.
C16_WorkerOverlapGuard ==
  /\ initialRuns + tickRuns <= 1
  /\ Cardinality(activeTimers) <= 1


Transitions ==
  {<<"SCHEDULED", "SENDING">>, <<"SENDING", "SENT">>, <<"SENDING", "FAILED">>,
   <<"SCHEDULED", "FAILED">>}

\* C17 (campaign state machine): a step changes a campaign's status only from
\* SCHEDULED to SENDING, from SENDING to SENT or FAILED, or, in the catch block
\* of an invocation working on it, from SCHEDULED to FAILED; a campaign whose
\* status is SENT or FAILED is left as it is by every step.
C17_CampaignStateMachine ==
  [][\A c \in CampaignIds :
       /\ emailCampaign'[c].status # emailCampaign[c].status =>
            /\ <<emailCampaign[c].status, emailCampaign'[c].status>> \in Transitions
            /\ (emailCampaign[c].status = "SCHEDULED" /\ emailCampaign'[c].status = "FAILED")
                 => \E i \in Invocations : pc[i] = "catch" /\ Campaign(i).id = c
       /\ emailCampaign[c].status \in {"SENT", "FAILED"} =>
            emailCampaign'[c] = emailCampaign[c]]_vars

\* A campaign nobody claimed is FAILED (the catch block took it from SCHEDULED),
\* and a claim was attempted on it afterwards.
C17_Witness ==
  \E c \in CampaignIds :
    /\ emailCampaign[c].status = "FAILED"
    /\ claimLog[c] = <<>>
    /\ \E j \in Invocations : <<j, c>> \in zeroRows


\* The invocation that takes the step: every step of the loop moves its
\* invocation's position.
Acts(i) == pc'[i] # pc[i] \/ idx'[i] # idx[i]

\* C18 (owner-only mutation): a step changes the status of a campaign only if
\* the invocation that takes it has won the claim of that campaign, in this
\* step or before; an invocation whose claim affected no row or threw leaves
\* the campaign's status alone.
C18_OwnerOnlyMutation ==
  [][\A c \in CampaignIds :
       emailCampaign'[c].status # emailCampaign[c].status =>
         \A i \in Invocations : Acts(i) => InSeq(claimLog'[c], i)]_vars


\* C19 (reconciliation never overwrites a non-PENDING recipient): a step of an
\* invocation leaves every recipient row whose status is not PENDING as it is:
\* status, sentAt, errorMessage and the rest, whatever result the invocation
\* holds for that recipient.
C19_NeverOverwritesNonPending ==
  [][\A r \in DOMAIN emailRecipient :
       ((\E i \in Invocations : Acts(i)) /\ emailRecipient[r].status # "PENDING")
         => emailRecipient'[r] = emailRecipient[r]]_vars

\* An invocation has reconciled its first recipient holding a success for it, and
\* its update affected no row: the recipient had been marked FAILED by the manual
\* send, and still is.
C19_Witness ==
  \E i \in Invocations :
    /\ pc[i] \in {"reconcile", "final"}
    /\ ri[i] > 1
    /\ ResultAt(emailResults[i], 1).success
    /\ successCount[i] = 0
    /\ emailRecipient[recipientsToProcess[i][1]].status = "FAILED"
    /\ emailRecipient[recipientsToProcess[i][1]].errorMessage # Null


\* The id the provider returned for the message of recipient r in a call of
\* invocation i, 0 when it returned none.
ReturnedId(i, r) ==
  LET calls == {k \in 1..Len(providerCalls) :
                  /\ providerCalls[k].inv = i
                  /\ providerCalls[k].response.kind = "data"
                  /\ InSeq(providerCalls[k].to, r)}
  IN IF calls = {} THEN 0
     ELSE LET k == CHOOSE k \in calls : TRUE
          IN providerCalls[k].response.items[Position(providerCalls[k].to, r)]

\* C20 (provider message id is recorded): a recipient the engine marked SENT
\* carries the message id the provider returned for its message.
C20_ProviderMessageIdRecorded ==
  \A r \in DOMAIN emailRecipient :
    emailRecipient[r].status = "SENT" =>
      /\ emailRecipient[r].resendEmailId # 0
      /\ \E i \in Invocations : emailRecipient[r].resendEmailId = ReturnedId(i, r)


\* C21 (idempotency token): every provider call an invocation issues carries an
\* idempotency key, and the key is determined by, and determines, the campaign
\* and the chunk index of the call.
C21_IdempotencyToken ==
  \A k \in 1..Len(providerCalls) :
    providerCalls[k].inv \in Invocations =>
      /\ providerCalls[k].idempotencyKey.defined
      /\ \A l \in 1..Len(providerCalls) :
           providerCalls[l].inv \in Invocations =>
             ((providerCalls[k].idempotencyKey = providerCalls[l].idempotencyKey)
                <=> (/\ providerCalls[k].campaignId = providerCalls[l].campaignId
                     /\ providerCalls[k].batchIndex = providerCalls[l].batchIndex))


\* The entries of the errors list of invocation i that name campaign c.
ErrorsNaming(i, c) == {k \in 1..Len(errors[i]) : errors[i][k].campaignId = c}

\* C22 (unexpected exception handling): once an invocation has ended, every
\* campaign during whose processing an operation threw is named by exactly one
\* entry of its errors list, is neither SCHEDULED nor SENDING any more, and is
\* counted in processed beside the campaigns that went through without exception.
C22_UnexpectedException ==
  \A i \in Invocations :
    Ended(i) =>
      /\ \A c \in CampaignIds :
           ErrorsNaming(i, c) # {} =>
             /\ Cardinality(ErrorsNaming(i, c)) = 1
             /\ emailCampaign[c].status \notin {"SCHEDULED", "SENDING"}
      /\ processed[i] =
           Len(finished[i]) + Cardinality({c \in CampaignIds : ErrorsNaming(i, c) # {}})


C24_SentAtFollowsStatus ==
  [][\A c \in CampaignIds :
       /\ (emailCampaign[c].status # "SENT" /\ emailCampaign'[c].status = "SENT") =>
            (emailCampaign'[c].sentAt = clock /\ emailCampaign'[c].sentAt # 0)
       /\ (emailCampaign[c].status # "FAILED" /\ emailCampaign'[c].status = "FAILED") =>
            emailCampaign'[c].sentAt = emailCampaign[c].sentAt
       /\ emailCampaign'[c].status = "SENT" => emailCampaign'[c].sentAt # 0]_vars

\* A campaign whose message was sent is SENT with the instant of the final update,
\* beside a campaign the catch block marked FAILED, without sentAt.
C24_Witness ==
  \E c, d \in CampaignIds :
    /\ emailCampaign[c].status = "SENT"
    /\ emailCampaign[c].sentAt = clock
    /\ CallsFor(c) # {}
    /\ emailCampaign[d].status = "FAILED"
    /\ emailCampaign[d].sentAt = 0
    /\ \E i \in Invocations : ErrorsNaming(i, d) # {}


FailureTypes == {"email.bounced", "email.failed"}

\* The label the handler stores for the delivery events the provider signs here.
LabelOf(type) ==
  CASE type = "email.delivered" -> "delivered"
    [] type = "email.bounced" -> "bounced"
    [] type = "email.failed" -> "failed"

\* C25 (event projection frame): the recipient table changes only in the update
\* step of a request carrying a recognized event that references a message id and
\* whose record was just stored; that step sets lastEvent to the event's label on
\* exactly the recipients whose resendEmailId is that id, sets their status to
\* FAILED and their errorMessage to the payload's text (when it has one) for
\* bounced and failed events only, and changes nothing else.
C25_EventProjectionFrame ==
  [][/\ emailRecipient' # emailRecipient => \E h \in Deliveries : wpc[h] = "update" /\ wpc'[h] = "done"
     /\ \A h \in Deliveries :
          (wpc[h] = "update" /\ wpc'[h] = "done") =>
            LET body == events[wreq[h].svixId] IN
              /\ body.type \in EMAIL_EVENTS
              /\ body.emailId # 0
              /\ RowsOf(wreq[h].svixId) # {}
              /\ \A r \in DOMAIN emailRecipient :
                   LET old == emailRecipient[r]
                       new == emailRecipient'[r]
                   IN IF old.resendEmailId = body.emailId
                      THEN /\ new.lastEvent = LabelOf(body.type)
                           /\ new.status = IF body.type \in FailureTypes
                                           THEN "FAILED" ELSE old.status
                           /\ new.errorMessage =
                                IF body.type \in FailureTypes /\ body.reason # Null
                                THEN body.reason ELSE old.errorMessage
                           /\ new = [old EXCEPT !.lastEvent = new.lastEvent,
                                                !.status = new.status,
                                                !.errorMessage = new.errorMessage]
                      ELSE new = old]_vars

\* A bounce that references the message of the first recipient was projected on
\* it, and the second recipient is as it was.
C25_Witness ==
  /\ <<1, 2>> \in DOMAIN emailRecipient
  /\ emailRecipient[<<1, 1>>].lastEvent = "bounced"
  /\ emailRecipient[<<1, 1>>].status = "FAILED"
  /\ emailRecipient[<<1, 1>>].errorMessage = "mailbox full"
  /\ emailRecipient[<<1, 2>>] = SentRecipient(<<1, 2>>)


Ceil(n, b) == IF n = 0 THEN 0 ELSE (n + b - 1) \div b

C28_ProjectionNotLost ==
  \A e \in EventIds :
    ( /\ RowsOf(e) # {}
      /\ events[e].emailId # 0
      /\ \A h \in DeliveredTo(e) : wpc[h] = "done"
      /\ \E h \in DeliveredTo(e) : wres[h] = 200 )
    => \A r \in DOMAIN emailRecipient :
         emailRecipient[r].resendEmailId = events[e].emailId =>
           /\ emailRecipient[r].lastEvent # Null
           /\ events[e].type \in FailureTypes => emailRecipient[r].status = "FAILED"


\* C29 (cycle counters match store effects): in every turn of the reconciliation
\* loop of an invocation, sent and successCount grow by the number of recipients
\* this turn took from PENDING to SENT, and failed and failedCount by the number
\* it took from PENDING to FAILED; a turn whose conditional update affected no
\* row changes none of the four counters, so it cannot influence finalStatus.
C29_CountersMatchStore ==
  [][\A i \in Invocations :
       (pc[i] = "reconcile" /\ ri'[i] = ri[i] + 1) =>
         LET moved(to) == Cardinality({r \in DOMAIN emailRecipient :
                                         /\ emailRecipient[r].status = "PENDING"
                                         /\ emailRecipient'[r].status = to})
         IN /\ totalSent'[i] - totalSent[i] = moved("SENT")
            /\ successCount'[i] - successCount[i] = moved("SENT")
            /\ totalFailed'[i] - totalFailed[i] = moved("FAILED")
            /\ failedCount'[i] - failedCount[i] = moved("FAILED")]_vars


\* Recipients handed to the provider by the manual send, and by the invocations
\* of processScheduledEmails.
DispatchedBy(invs) ==
  UNION {{providerCalls[k].to[j] : j \in 1..Len(providerCalls[k].to)} :
           k \in {n \in 1..Len(providerCalls) : providerCalls[n].inv \in invs}}

\* C30 (manual send does not race the claim cycle): no recipient is dispatched to
\* the provider both by the manual send and by a processScheduledEmails
\* invocation, and the manual send writes the status of a campaign only when no
\* invocation has claimed it.
C30_ManualSendDoesNotRace ==
  /\ [](DispatchedBy({"manual"}) \cap DispatchedBy(Invocations) = {})
  /\ [][(mpc \in {"sending", "final"} /\ mpc' # mpc) => claimLog[mid] = <<>>]_vars

====
